---- MODULE Spec2Model ----
(***************************************************************************)
(* Model of pathaia/util/management.py: the folder resolvers, the labeled  *)
(* patch extractor and PathaiaHandler.list_patches.                        *)
(*                                                                         *)
(* A file or folder name is a sequence of one-character strings, a path is *)
(* a sequence of names (os.path.join appends a name).  The filesystem is a *)
(* record: dirs maps the path of every directory to its os.listdir result, *)
(* files is the set of paths of regular files, csv maps the path of every  *)
(* table file to its columns and rows.  Cell values are opaque: what       *)
(* pandas makes of their types is not modelled.                            *)
(***************************************************************************)
EXTENDS Integers, Sequences, FiniteSets, TLC

VARIABLES
    fs,            \* the filesystem the calls read
    args,          \* the call being run: the operation and its arguments
    pc,            \* position in the running call
    walk_started,  \* get_patch_folders_in_project generator: body entered
    walk_idx,      \*   number of os.listdir names consumed
    entry,         \* list_patches: (name, patch_folder) of the current iteration
    slide_path,    \* list_patches: local slide_path
    patch_file,    \* list_patches: local patch_file
    gen_started,   \* handle_labeled_patches generator: body entered
    level_df,      \*   local level_df
    gen_pos,       \*   number of rows of level_df iterated
    patch_list,    \* list_patches: local patch_list
    labels,        \* list_patches: local labels
    origin,        \* history: for each appended descriptor, its entry name and row index
    yielded,       \* values a generator called on its own has yielded so far
    warned,        \* warnings.warn calls so far, in order
    warned_entry,  \* history: for each warning, the entry name being processed
    exc,           \* the exception in flight or propagated to the caller
    result         \* the value returned to the caller

vars == <<fs, args, pc, walk_started, walk_idx, entry, slide_path, patch_file,
          gen_started, level_df, gen_pos, patch_list, labels, origin, yielded,
          warned, warned_entry, exc, result>>

(***************************************************************************)
(* Bounds of the model.                                                    *)
(***************************************************************************)
MaxEntries == 2
MaxRows == 2
MaxListing == 2

(***************************************************************************)
(* str methods used by the code.                                           *)
(***************************************************************************)
\* str.endswith
EndsWith(s, suf) ==
    /\ Len(suf) <= Len(s)
    /\ SubSeq(s, Len(s) - Len(suf) + 1, Len(s)) = suf

\* str.startswith
StartsWith(s, pre) ==
    /\ Len(pre) <= Len(s)
    /\ SubSeq(s, 1, Len(pre)) = pre

\* `sub in s` for two str
Contains(s, sub) ==
    \E i \in 1..(Len(s) - Len(sub) + 1) : SubSeq(s, i, i + Len(sub) - 1) = sub

\* str.rfind(".") , 0 when there is no dot (python: -1)
RFindDot(s) ==
    IF \E i \in 1..Len(s) : s[i] = "."
    THEN CHOOSE i \in 1..Len(s) : s[i] = "." /\ \A j \in (i+1)..Len(s) : s[j] # "."
    ELSE 0

\* Mutant of SplitExt: the name is cut at its first dot (name.split(".")[0]).
SplitExtFirstDot(name) ==
    IF \E i \in 1..Len(name) : name[i] = "."
    THEN LET dot == CHOOSE i \in 1..Len(name) :
                       name[i] = "." /\ \A j \in 1..(i - 1) : name[j] # "."
         IN  <<SubSeq(name, 1, dot - 1), SubSeq(name, dot, Len(name))>>
    ELSE <<name, <<>>>>

\* os.path.splitext on a name without separator: split at the last dot,
\* unless only dots precede it.
SplitExt(name) ==
    LET dot == RFindDot(name) IN
    IF dot > 0 /\ \E k \in 1..(dot - 1) : name[k] # "."
    THEN <<SubSeq(name, 1, dot - 1), SubSeq(name, dot, Len(name))>>
    ELSE <<name, <<>>>>

\* os.path.join(folder, name)
Join(folder, name) == Append(folder, name)

(***************************************************************************)
(* os.path and pandas primitives over the filesystem record.               *)
(***************************************************************************)
IsDir(f, path) == path \in DOMAIN f.dirs
Exists(f, path) == path \in DOMAIN f.dirs \/ path \in f.files
ListDir(f, path) == f.dirs[path]
ReadCsv(f, path) == f.csv[path]

(***************************************************************************)
(* Literals of the source.                                                 *)
(***************************************************************************)
MrxsExt == <<".", "m", "r", "x", "s">>
HiddenMark == <<".">>
PatchesCsv == <<"p", "a", "t", "c", "h", "e", "s", ".", "c", "s", "v">>
Annotation == <<"a", "n", "n", "o", "t", "a", "t", "i", "o", "n">>
DefaultExclude == <<Annotation>>

\* The exception an operation raises: its class, the raise site (one message
\* format each), and the values formatted into its message, by parameter name.
Raise(kind, site, mentions) ==
    [ok |-> FALSE, kind |-> kind, site |-> site, mentions |-> mentions]
Return(val) == [ok |-> TRUE, val |-> val]

(***************************************************************************)
(* get_patch_csv_from_patch_folder                                         *)
(***************************************************************************)
\* Mutant of get_patch_csv_from_patch_folder: the PatchesNotFoundError
\* message is formatted with the missing file instead of the folder.
get_patch_csv_naming_file(f, patch_folder) ==
    IF IsDir(f, patch_folder)
    THEN LET file == Join(patch_folder, PatchesCsv) IN
         IF Exists(f, file)
         THEN Return(file)
         ELSE Raise("PatchesNotFoundError", "no_patches",
                    [patch_folder |-> file])
    ELSE Raise("SlideNotFoundError", "no_patch_folder",
               [patch_folder |-> patch_folder])

get_patch_csv_from_patch_folder(f, patch_folder) ==
    IF IsDir(f, patch_folder)
    THEN LET file == Join(patch_folder, PatchesCsv) IN
         IF Exists(f, file)
         THEN Return(file)
         ELSE Raise("PatchesNotFoundError", "no_patches",
                    [patch_folder |-> patch_folder])
    ELSE Raise("SlideNotFoundError", "no_patch_folder",
               [patch_folder |-> patch_folder])

(***************************************************************************)
(* get_patch_folders_in_project, a generator: one evaluation of WalkerNext *)
(* is one next() on it.                                                    *)
(***************************************************************************)
\* Mutant of Keep: keep is assigned on every turn of the loop, so the last
\* exclude term alone decides.
KeepByLastTerm(name, exclude) ==
    exclude = <<>> \/ ~Contains(name, exclude[Len(exclude)])

\* lines 116-119: keep is False as soon as one exclude term is in the name
Keep(name, exclude) ==
    \A k \in 1..Len(exclude) : ~Contains(name, exclude[k])

\* lines 115-123 resumed after `consumed` names: the position of the next
\* name that is yielded, 0 when the listing is exhausted first
RECURSIVE ScanProject(_, _, _, _)
ScanProject(f, project_folder, exclude, consumed) ==
    LET listing == ListDir(f, project_folder) IN
    IF consumed >= Len(listing)
    THEN 0
    ELSE LET name == listing[consumed + 1] IN
         IF Keep(name, exclude) /\ IsDir(f, Join(project_folder, name))
         THEN consumed + 1
         ELSE ScanProject(f, project_folder, exclude, consumed + 1)

\* Mutant of WalkerNext: a project folder that is no directory ends the
\* generator instead of raising.
WalkerNextSilent(f, project_folder, exclude, entered, consumed) ==
    IF ~IsDir(f, project_folder)
    THEN [kind |-> "stop"]
    ELSE LET at == ScanProject(f, project_folder, exclude, consumed) IN
         IF at = 0
         THEN [kind |-> "stop"]
         ELSE LET name == ListDir(f, project_folder)[at] IN
              [kind |-> "yield", at |-> at,
               val |-> <<name, Join(project_folder, name)>>]

WalkerNext(f, project_folder, exclude, entered, consumed) ==
    IF ~entered /\ ~IsDir(f, project_folder)
    THEN [kind |-> "raise",
          exc |-> Raise("EmptyProjectError", "no_project",
                       [project_folder |-> project_folder])]
    ELSE LET at == ScanProject(f, project_folder, exclude, consumed) IN
         IF at = 0
         THEN [kind |-> "stop"]
         ELSE LET name == ListDir(f, project_folder)[at] IN
              [kind |-> "yield", at |-> at,
               val |-> <<name, Join(project_folder, name)>>]

(***************************************************************************)
(* get_slide_file                                                          *)
(***************************************************************************)
\* lines 144-146
SlideMatches(name, slide_name) ==
    /\ EndsWith(name, MrxsExt)
    /\ ~StartsWith(name, HiddenMark)
    /\ slide_name = SplitExt(name)[1]

\* Mutant of get_slide_file: without the directory check of lines 139-142,
\* os.listdir raises on a slide folder that is no directory.
get_slide_file_unchecked(f, slide_folder, slide_name) ==
    IF ~IsDir(f, slide_folder)
    THEN Raise("FileNotFoundError", "listdir", [slide_folder |-> slide_folder])
    ELSE LET listing == ListDir(f, slide_folder)
             hits == {i \in 1..Len(listing) : SlideMatches(listing[i], slide_name)}
         IN  IF hits = {}
             THEN Raise("SlideNotFoundError", "no_slide_file",
                        [slide_name |-> slide_name, slide_folder |-> slide_folder])
             ELSE LET first == CHOOSE i \in hits : \A j \in hits : i <= j
                  IN  Return(Join(slide_folder, listing[first]))

get_slide_file(f, slide_folder, slide_name) ==
    IF ~IsDir(f, slide_folder)
    THEN Raise("SlideNotFoundError", "no_slide_folder",
               [slide_folder |-> slide_folder])
    ELSE LET listing == ListDir(f, slide_folder)
             hits == {i \in 1..Len(listing) : SlideMatches(listing[i], slide_name)}
         IN  IF hits = {}
             THEN Raise("SlideNotFoundError", "no_slide_file",
                        [slide_name |-> slide_name, slide_folder |-> slide_folder])
             ELSE LET first == CHOOSE i \in hits : \A j \in hits : i <= j
                  IN  Return(Join(slide_folder, listing[first]))

(***************************************************************************)
(* handle_labeled_patches, a generator: one evaluation of ExtractNext is   *)
(* one next() on it.  A DataFrame is its set of columns and its rows in    *)
(* order, each row with its index label.                                   *)
(***************************************************************************)
\* pd.read_csv: the rows of the file under a RangeIndex
DataFrame(table) ==
    [columns |-> table.columns,
     rows |-> [i \in 1..Len(table.rows) |->
                  [index |-> i - 1, data |-> table.rows[i]]]]

\* df[df["level"] == level]: the rows whose level is equal, order and index kept
RECURSIVE MaskRows(_, _)
MaskRows(rows, level) ==
    IF rows = <<>>
    THEN <<>>
    ELSE IF Head(rows).data.level = level
         THEN <<Head(rows)>> \o MaskRows(Tail(rows), level)
         ELSE MaskRows(Tail(rows), level)

\* Mutant of FilterLevel: the mask is df["level"] >= level.
FilterLevelAtLeast(df, level) ==
    LET keep(row) == row.data.level >= level
    IN  [columns |-> df.columns, rows |-> SelectSeq(df.rows, keep)]

FilterLevel(df, level) ==
    [columns |-> df.columns, rows |-> MaskRows(df.rows, level)]

\* Mutant of HasColumn: the column is looked for in each row of the view, so
\* a view without rows passes.
HasColumnInRows(df, column) ==
    \A i \in DOMAIN df.rows : column \in DOMAIN df.rows[i].data

\* line 171: `column not in level_df` tests the column labels
HasColumn(df, column) == column \in df.columns

\* Mutant of YieldRow: x and y are yielded in the other order.
YieldRowSwapped(row, column) == <<row.data.y, row.data.x, row.data[column]>>

\* line 176
YieldRow(row, column) == <<row.data.x, row.data.y, row.data[column]>>

ExtractNext(f, file, level, column, entered, view, pos) ==
    LET ldf == IF entered THEN view ELSE FilterLevel(DataFrame(ReadCsv(f, file)), level)
    IN  IF ~entered /\ ~HasColumn(ldf, column)
        THEN [kind |-> "raise",
              exc |-> Raise("UnknownColumnError", "no_column",
                           [column |-> column, patch_file |-> file])]
        ELSE IF pos >= Len(ldf.rows)
             THEN [kind |-> "stop", view |-> ldf]
             ELSE [kind |-> "yield", view |-> ldf,
                   index |-> ldf.rows[pos + 1].index,
                   val |-> YieldRow(ldf.rows[pos + 1], column)]

(***************************************************************************)
(* PathaiaHandler.list_patches                                             *)
(***************************************************************************)
NoExc == [ok |-> TRUE]
NoFrame == [columns |-> {}, rows |-> <<>>]

\* Mutant of Caught: SlideNotFoundError is left out of the except clause.
CaughtWithoutSlideNotFound == {"PatchesNotFoundError", "UnknownColumnError"}

\* line 223: the exception classes the per-slide handler catches
Caught == {"PatchesNotFoundError", "UnknownColumnError", "SlideNotFoundError"}

\* str(e): the formatted message, which keeps the raise site's format and values
Str(e) == [site |-> e.site, mentions |-> e.mentions]

\* Mutant of Descriptor: the dimensions are a fixed default, not the argument.
DescriptorFixedDim(path, x, y, level, dim) ==
    [slide |-> path, x |-> x, y |-> y, level |-> level, dimensions |-> <<256, 256>>]

\* lines 219-220
Descriptor(path, x, y, level, dim) ==
    [slide |-> path, x |-> x, y |-> y, level |-> level, dimensions |-> dim]

\* lines 210-211
ListPatchesEnter ==
    /\ pc = "call"
    /\ args.op = "list_patches"
    /\ patch_list' = <<>>
    /\ labels' = <<>>
    /\ pc' = "for_entry"
    /\ UNCHANGED <<fs, args, walk_started, walk_idx, entry, slide_path, patch_file,
                   gen_started, level_df, gen_pos, origin, yielded, warned, exc,
                   result,
                   warned_entry>>

\* line 212: next() on the walker, outside the try
ListPatchesForEntry ==
    /\ pc = "for_entry"
    /\ LET r == WalkerNext(fs, args.self.project_folder, DefaultExclude,
                           walk_started, walk_idx)
       IN  /\ walk_started' = TRUE
           /\ CASE r.kind = "raise" ->
                     /\ exc' = r.exc
                     /\ pc' = "raised"
                     /\ UNCHANGED <<entry, walk_idx>>
                [] r.kind = "yield" ->
                     /\ entry' = r.val
                     /\ walk_idx' = r.at
                     /\ pc' = "get_slide"
                     /\ UNCHANGED exc
                [] r.kind = "stop" ->
                     /\ pc' = "return"
                     /\ UNCHANGED <<entry, walk_idx, exc>>
    /\ UNCHANGED <<fs, args, slide_path, patch_file, gen_started, level_df, gen_pos,
                   patch_list, labels, origin, yielded, warned, result,
                   warned_entry>>

\* line 214
ListPatchesGetSlide ==
    /\ pc = "get_slide"
    /\ LET r == get_slide_file(fs, args.self.slide_folder, entry[1])
       IN  IF r.ok
           THEN /\ slide_path' = r.val
                /\ pc' = "get_csv"
                /\ UNCHANGED exc
           ELSE /\ exc' = r
                /\ pc' = "except"
                /\ UNCHANGED slide_path
    /\ UNCHANGED <<fs, args, walk_started, walk_idx, entry, patch_file, gen_started,
                   level_df, gen_pos, patch_list, labels, origin, yielded, warned,
                   result,
                   warned_entry>>

\* line 215, and the call of line 217 that creates the generator
ListPatchesGetCsv ==
    /\ pc = "get_csv"
    /\ LET r == get_patch_csv_from_patch_folder(fs, entry[2])
       IN  IF r.ok
           THEN /\ patch_file' = r.val
                /\ gen_started' = FALSE
                /\ gen_pos' = 0
                /\ level_df' = NoFrame
                /\ pc' = "for_row"
                /\ UNCHANGED exc
           ELSE /\ exc' = r
                /\ pc' = "except"
                /\ UNCHANGED <<patch_file, gen_started, gen_pos, level_df>>
    /\ UNCHANGED <<fs, args, walk_started, walk_idx, entry, slide_path, patch_list,
                   labels, origin, yielded, warned, result,
                   warned_entry>>

\* lines 217-222: next() on the extractor and, for a row, the loop body
ListPatchesForRow ==
    /\ pc = "for_row"
    /\ LET r == ExtractNext(fs, patch_file, args.level, args.label,
                            gen_started, level_df, gen_pos)
       IN  /\ gen_started' = TRUE
           /\ CASE r.kind = "raise" ->
                     /\ exc' = r.exc
                     /\ pc' = "except"
                     /\ UNCHANGED <<level_df, gen_pos, patch_list, labels, origin>>
                [] r.kind = "yield" ->
                     /\ level_df' = r.view
                     /\ gen_pos' = gen_pos + 1
                     /\ patch_list' = Append(patch_list,
                            Descriptor(slide_path, r.val[1], r.val[2],
                                       args.level, args.dim))
                     /\ labels' = Append(labels, r.val[3])
                     /\ origin' = Append(origin, [name |-> entry[1], index |-> r.index])
                     /\ pc' = "for_row"
                     /\ UNCHANGED exc
                [] r.kind = "stop" ->
                     /\ level_df' = r.view
                     /\ pc' = "for_entry"
                     /\ UNCHANGED <<gen_pos, patch_list, labels, origin, exc>>
    /\ UNCHANGED <<fs, args, walk_started, walk_idx, entry, slide_path, patch_file,
                   yielded, warned, result,
                   warned_entry>>

\* lines 223-224: a caught class is warned about and the loop goes on; any
\* other class leaves list_patches.  warned records the calls of
\* warnings.warn; what the warning filters in force do with them is not
\* modelled.
ListPatchesExcept ==
    /\ pc = "except"
    /\ IF exc.kind \in Caught
       THEN /\ warned' = Append(warned, Str(exc))
            /\ warned_entry' = Append(warned_entry, entry[1])
            /\ exc' = NoExc
            /\ pc' = "for_entry"
       ELSE /\ pc' = "raised"
            /\ UNCHANGED <<warned, warned_entry, exc>>
    /\ UNCHANGED <<fs, args, walk_started, walk_idx, entry, slide_path, patch_file,
                   gen_started, level_df, gen_pos, patch_list, labels, origin,
                   yielded, result>>

\* line 225
ListPatchesReturn ==
    /\ pc = "return"
    /\ result' = <<[patch_list |-> patch_list, labels |-> labels]>>
    /\ pc' = "returned"
    /\ UNCHANGED <<fs, args, walk_started, walk_idx, entry, slide_path, patch_file,
                   gen_started, level_df, gen_pos, patch_list, labels, origin,
                   yielded, warned, exc,
                   warned_entry>>

(***************************************************************************)
(* The four module functions called on their own.                          *)
(***************************************************************************)
CallGetSlideFile ==
    /\ pc = "call"
    /\ args.op = "get_slide_file"
    /\ LET r == get_slide_file(fs, args.slide_folder, args.slide_name)
       IN  IF r.ok
           THEN /\ result' = <<r.val>>
                /\ pc' = "returned"
                /\ UNCHANGED exc
           ELSE /\ exc' = r
                /\ pc' = "raised"
                /\ UNCHANGED result
    /\ UNCHANGED <<fs, args, walk_started, walk_idx, entry, slide_path, patch_file,
                   gen_started, level_df, gen_pos, patch_list, labels, origin,
                   yielded, warned,
                   warned_entry>>

CallGetPatchCsv ==
    /\ pc = "call"
    /\ args.op = "get_patch_csv_from_patch_folder"
    /\ LET r == get_patch_csv_from_patch_folder(fs, args.patch_folder)
       IN  IF r.ok
           THEN /\ result' = <<r.val>>
                /\ pc' = "returned"
                /\ UNCHANGED exc
           ELSE /\ exc' = r
                /\ pc' = "raised"
                /\ UNCHANGED result
    /\ UNCHANGED <<fs, args, walk_started, walk_idx, entry, slide_path, patch_file,
                   gen_started, level_df, gen_pos, patch_list, labels, origin,
                   yielded, warned,
                   warned_entry>>

\* the caller iterates get_patch_folders_in_project(project_folder, exclude)
NextOnWalker ==
    /\ pc = "call"
    /\ args.op = "get_patch_folders_in_project"
    /\ LET r == WalkerNext(fs, args.project_folder, args.exclude,
                           walk_started, walk_idx)
       IN  /\ walk_started' = TRUE
           /\ CASE r.kind = "raise" ->
                     /\ exc' = r.exc
                     /\ pc' = "raised"
                     /\ UNCHANGED <<yielded, walk_idx>>
                [] r.kind = "yield" ->
                     /\ yielded' = Append(yielded, r.val)
                     /\ walk_idx' = r.at
                     /\ UNCHANGED <<pc, exc>>
                [] r.kind = "stop" ->
                     /\ pc' = "exhausted"
                     /\ UNCHANGED <<yielded, walk_idx, exc>>
    /\ UNCHANGED <<fs, args, entry, slide_path, patch_file, gen_started, level_df,
                   gen_pos, patch_list, labels, origin, warned, result,
                   warned_entry>>

\* the caller iterates handle_labeled_patches(patch_file, level, column)
NextOnExtract ==
    /\ pc = "call"
    /\ args.op = "handle_labeled_patches"
    /\ LET r == ExtractNext(fs, args.patch_file, args.level, args.column,
                            gen_started, level_df, gen_pos)
       IN  /\ gen_started' = TRUE
           /\ CASE r.kind = "raise" ->
                     /\ exc' = r.exc
                     /\ pc' = "raised"
                     /\ UNCHANGED <<yielded, level_df, gen_pos>>
                [] r.kind = "yield" ->
                     /\ yielded' = Append(yielded, r.val)
                     /\ level_df' = r.view
                     /\ gen_pos' = gen_pos + 1
                     /\ UNCHANGED <<pc, exc>>
                [] r.kind = "stop" ->
                     /\ level_df' = r.view
                     /\ pc' = "exhausted"
                     /\ UNCHANGED <<yielded, gen_pos, exc>>
    /\ UNCHANGED <<fs, args, walk_started, walk_idx, entry, slide_path, patch_file,
                   patch_list, labels, origin, warned, result,
                   warned_entry>>

(***************************************************************************)
(* The inputs: filesystems laid out by the project convention, and calls.  *)
(***************************************************************************)
ProjectFolder == <<<<"P">>>>
SlideFolder == <<<<"S">>>>

sA == <<"s", "A">>
sB == <<"s", "B">>
AnnotationNotes == Annotation \o <<"_", "1">>

Range(seq) == {seq[i] : i \in DOMAIN seq}

\* os.listdir results: up to n distinct names, in any order
Listings(names, n) ==
    {l \in UNION {[1..k -> names] : k \in 0..n} :
        \A i, j \in DOMAIN l : i # j => l[i] # l[j]}

BaseColumns == {"level", "x", "y"}
LabelColumns == {"tumor", "grade"}
Levels == {0, 1}
Dims == {<<256, 256>>, <<64, 32>>}

FullRows ==
    { [level |-> 0, x |-> 1, y |-> 2, tumor |-> "yes", grade |-> "g1"],
      [level |-> 1, x |-> 3, y |-> 4, tumor |-> "no",  grade |-> "g2"],
      [level |-> 0, x |-> 5, y |-> 6, tumor |-> "no",  grade |-> "g3"] }

\* a table file with the three required columns and the label columns `cols`
Table(cols, rows) ==
    [columns |-> BaseColumns \cup cols,
     rows |-> [i \in DOMAIN rows |-> [c \in BaseColumns \cup cols |-> rows[i][c]]]]

Tables ==
    {Table(cols, rows) : cols \in SUBSET LabelColumns,
                         rows \in UNION {[1..k -> FullRows] : k \in 0..MaxRows}}

\* the tables of the projects list_patches is run on
ProjectTables ==
    LET r1 == [level |-> 0, x |-> 1, y |-> 2, tumor |-> "yes", grade |-> "g1"]
        r2 == [level |-> 1, x |-> 3, y |-> 4, tumor |-> "no",  grade |-> "g2"]
        r3 == [level |-> 0, x |-> 5, y |-> 6, tumor |-> "no",  grade |-> "g3"]
    IN  { Table({"tumor"}, <<r1, r2, r3>>),
          Table({"grade"}, <<r3, r1>>),
          Table({"tumor", "grade"}, <<r2>>) }

PlainFile == [type |-> "file"]
EmptyDir == [type |-> "emptydir"]
PatchDir(table) == [type |-> "patchdir", table |-> table]

\* the filesystem with the project folder of kind "dir", "file" or "missing",
\* its listing, what each listed name is, and the slide folder
MakeFs(project_kind, listing, kinds, slides_isdir, slide_listing) ==
    LET names == Range(listing)
        sub(n) == Join(ProjectFolder, n)
        csv_of(n) == Join(sub(n), PatchesCsv)
        patched == {n \in names : kinds[n].type = "patchdir"}
        folders == {n \in names : kinds[n].type # "file"}
        D == (IF project_kind = "dir" THEN {ProjectFolder} ELSE {})
             \cup {sub(n) : n \in folders}
             \cup (IF slides_isdir THEN {SlideFolder} ELSE {})
    IN  [dirs |-> [p \in D |->
                    IF p = ProjectFolder THEN listing
                    ELSE IF p = SlideFolder THEN slide_listing
                    ELSE IF p[2] \in patched THEN <<PatchesCsv>> ELSE <<>>],
         files |-> {sub(n) : n \in names \ folders}
                   \cup {csv_of(n) : n \in patched}
                   \cup {Join(SlideFolder, m) : m \in Range(slide_listing)}
                   \cup (IF project_kind = "file" THEN {ProjectFolder} ELSE {}),
         csv |-> [p \in {csv_of(n) : n \in patched} |-> kinds[p[2]].table]]

InitLocals ==
    /\ pc = "call"
    /\ walk_started = FALSE
    /\ walk_idx = 0
    /\ entry = <<>>
    /\ slide_path = <<>>
    /\ patch_file = <<>>
    /\ gen_started = FALSE
    /\ level_df = NoFrame
    /\ gen_pos = 0
    /\ patch_list = <<>>
    /\ labels = <<>>
    /\ origin = <<>>
    /\ yielded = <<>>
    /\ warned = <<>>
    /\ warned_entry = <<>>
    /\ exc = NoExc
    /\ result = <<>>

\* lines 186-196 and a pending list_patches(level, dim, label)
ProjectNames == {sA, sB, AnnotationNotes}
ProjectKinds == {PlainFile, EmptyDir} \cup {PatchDir(t) : t \in ProjectTables}
Mrxs(name) == name \o MrxsExt
ProjectSlideListings ==
    { <<>>, <<Mrxs(sA)>>, <<Mrxs(AnnotationNotes), Mrxs(sB), Mrxs(sA)>> }

InitListPatches ==
    /\ \E level \in Levels, dim \in Dims, label \in LabelColumns :
          args = [op |-> "list_patches",
                  self |-> [project_folder |-> ProjectFolder,
                            slide_folder |-> SlideFolder],
                  level |-> level, dim |-> dim, label |-> label]
    /\ \/ \E listing \in Listings(ProjectNames, MaxEntries) :
          \E kinds \in [Range(listing) -> ProjectKinds] :
             \/ \E sl \in ProjectSlideListings :
                   fs = MakeFs("dir", listing, kinds, TRUE, sl)
             \/ fs = MakeFs("dir", listing, kinds, FALSE, <<>>)
       \/ \E kind \in {"file", "missing"}, sl \in ProjectSlideListings :
             fs = MakeFs(kind, <<>>, <<>>, TRUE, sl)
    /\ InitLocals

\* a pending get_slide_file(slide_folder, slide_name)
SlideFileNames ==
    { Mrxs(sA), Mrxs(sB),
      <<".">> \o Mrxs(sA),                       \* .sA.mrxs
      sA \o <<".", "M", "R", "X", "S">>,          \* sA.MRXS
      Mrxs(sA \o <<"x">>),                        \* sAx.mrxs
      Mrxs(<<"x">> \o sA),                        \* xsA.mrxs
      Mrxs(<<"s", "a">>),                         \* sa.mrxs
      Mrxs(sA \o <<".", "b">>),                   \* sA.b.mrxs
      Mrxs(sA \o <<".">>),                        \* sA..mrxs
      sA \o <<".", "t", "i", "f">>,               \* sA.tif
      Mrxs(sA) \o <<".", "b", "a", "k">>,         \* sA.mrxs.bak
      sA \o <<"m", "r", "x", "s">>,               \* sAmrxs
      MrxsExt }                                   \* .mrxs
SlideNameArgs ==
    { sA, sB, <<"s", "a">>, <<"s">>, sA \o <<".", "b">>, sA \o <<".">>, <<>>,
      Mrxs(sA) }

InitGetSlideFile ==
    /\ \E name \in SlideNameArgs :
          args = [op |-> "get_slide_file", slide_folder |-> SlideFolder,
                  slide_name |-> name]
    /\ \/ \E sl \in Listings(SlideFileNames, MaxListing) :
             fs = MakeFs("missing", <<>>, <<>>, TRUE, sl)
       \/ fs = MakeFs("missing", <<>>, <<>>, FALSE, <<>>)
    /\ InitLocals

\* a pending iteration of get_patch_folders_in_project(project_folder, exclude)
WalkNames ==
    { sA, sB, Annotation, AnnotationNotes,
      <<"x">> \o Annotation \o <<"x">>,           \* xannotationx
      SubSeq(Annotation, 1, 9),                   \* annotatio
      <<"A">> \o Tail(Annotation) }               \* Annotation
ExcludeLists ==
    { DefaultExclude, <<>>, <<Annotation, <<"B">>>>, <<<<"z">>, <<"s">>>>,
      <<<<>>>> }

InitWalker ==
    /\ \E exclude \in ExcludeLists :
          args = [op |-> "get_patch_folders_in_project",
                  project_folder |-> ProjectFolder, exclude |-> exclude]
    /\ \/ \E listing \in Listings(WalkNames, MaxEntries) :
          \E kinds \in [Range(listing) -> {PlainFile, EmptyDir}] :
             fs = MakeFs("dir", listing, kinds, FALSE, <<>>)
       \/ \E kind \in {"file", "missing"} :
             fs = MakeFs(kind, <<>>, <<>>, FALSE, <<>>)
    /\ InitLocals

\* a pending iteration of handle_labeled_patches(patch_file, level, column)
InitExtract ==
    /\ \E level \in Levels \cup {2}, column \in LabelColumns :
          args = [op |-> "handle_labeled_patches",
                  patch_file |-> Join(Join(ProjectFolder, sA), PatchesCsv),
                  level |-> level, column |-> column]
    /\ \E t \in Tables :
          fs = MakeFs("dir", <<sA>>, [n \in {sA} |-> PatchDir(t)], FALSE, <<>>)
    /\ InitLocals

\* a pending get_patch_csv_from_patch_folder(patch_folder)
InitGetPatchCsv ==
    /\ args = [op |-> "get_patch_csv_from_patch_folder",
               patch_folder |-> Join(ProjectFolder, sA)]
    /\ \/ \E kind \in {PlainFile, EmptyDir} \cup {PatchDir(t) : t \in ProjectTables} :
             fs = MakeFs("dir", <<sA>>, [n \in {sA} |-> kind], FALSE, <<>>)
       \/ fs = MakeFs("dir", <<>>, <<>>, FALSE, <<>>)
    /\ InitLocals

Init ==
    \/ InitListPatches
    \/ InitGetSlideFile
    \/ InitWalker
    \/ InitExtract
    \/ InitGetPatchCsv

Next ==
    \/ ListPatchesEnter
    \/ ListPatchesForEntry
    \/ ListPatchesGetSlide
    \/ ListPatchesGetCsv
    \/ ListPatchesForRow
    \/ ListPatchesExcept
    \/ ListPatchesReturn
    \/ CallGetSlideFile
    \/ CallGetPatchCsv
    \/ NextOnWalker
    \/ NextOnExtract

Spec == Init /\ [][Next]_vars

(***************************************************************************)
(* Vocabulary of the properties, stated over the filesystem and the call.  *)
(***************************************************************************)
IsListPatches == args.op = "list_patches"
ProjectIsDir == ProjectFolder \in DOMAIN fs.dirs
SlidesIsDir == SlideFolder \in DOMAIN fs.dirs

\* sub occurs in name: at some offset, name reads sub character by character
IsSubstring(sub, name) ==
    \E i \in 0..(Len(name) - Len(sub)) :
        \A k \in DOMAIN sub : name[i + k] = sub[k]

FolderOf(n) == ProjectFolder \o <<n>>
CsvOf(n) == ProjectFolder \o <<n, PatchesCsv>>
SlideFileOf(n) == SlideFolder \o <<n \o MrxsExt>>

\* the slide entries of the project, in directory-listing order
IsSlideEntry(n) == FolderOf(n) \in DOMAIN fs.dirs /\ ~IsSubstring(Annotation, n)
SlideEntries ==
    IF ProjectIsDir THEN SelectSeq(fs.dirs[ProjectFolder], IsSlideEntry) ELSE <<>>

SlideFileThere(n) ==
    /\ SlidesIsDir
    /\ \E k \in DOMAIN fs.dirs[SlideFolder] : fs.dirs[SlideFolder][k] = n \o MrxsExt
    /\ (n \o MrxsExt)[1] # "."
TableThere(n) == CsvOf(n) \in fs.files
TableOf(n) == fs.csv[CsvOf(n)]
ColumnThere(n) == args.label \in TableOf(n).columns
Fails(n) == ~SlideFileThere(n) \/ ~TableThere(n) \/ ~ColumnThere(n)

\* index labels (from 0) of the rows of n's table at the queried level
MatchingIndexes(n) ==
    {k - 1 : k \in {k \in DOMAIN TableOf(n).rows :
                       TableOf(n).rows[k].level = args.level}}
RowAt(n, index) == TableOf(n).rows[index + 1]

(***************************************************************************)
(* C1  Per-slide failure isolation: on a project folder that is a          *)
(* directory list_patches never raises and is never stuck before it        *)
(* returns; no descriptor or label is ever appended for an entry that      *)
(* fails at the slide file, the table or the label column (not even for a  *)
(* prefix of its rows); and the returned lists hold every row at the       *)
(* queried level of every entry that does not fail, wherever it stands     *)
(* relative to failing entries.                                            *)
(***************************************************************************)
C1_FailureIsolation ==
    (IsListPatches /\ ProjectIsDir) =>
        /\ pc # "raised"
        /\ pc # "returned" => ENABLED Next
        /\ \A i \in DOMAIN origin : ~Fails(origin[i].name)
        /\ pc = "returned" =>
              /\ Len(result[1].patch_list) = Len(origin)
              /\ Len(result[1].labels) = Len(origin)
              /\ \A k \in DOMAIN SlideEntries :
                    LET n == SlideEntries[k] IN
                    IF Fails(n)
                    THEN \A i \in DOMAIN origin : origin[i].name # n
                    ELSE \A r \in MatchingIndexes(n) :
                            \E i \in DOMAIN origin :
                                /\ origin[i] = [name |-> n, index |-> r]
                                /\ result[1].patch_list[i].slide = SlideFileOf(n)
                                /\ result[1].patch_list[i].x = RowAt(n, r).x
                                /\ result[1].patch_list[i].y = RowAt(n, r).y
                                /\ result[1].labels[i] = RowAt(n, r)[args.label]

\* a failing entry walked before an entry whose rows are returned
C1_Witness ==
    /\ IsListPatches
    /\ pc = "returned"
    /\ Len(SlideEntries) = 2
    /\ Fails(SlideEntries[1])
    /\ TableThere(SlideEntries[1])
    /\ ~Fails(SlideEntries[2])
    /\ Len(result[1].patch_list) >= 2

(***************************************************************************)
(* C2  When project_folder is not a directory, list_patches raises         *)
(* EmptyProjectError from the loop header: it never reaches a per-slide    *)
(* step, the handler or the return, and nothing is accumulated, warned or  *)
(* returned.                                                               *)
(***************************************************************************)
C2_EmptyProjectRaises ==
    (IsListPatches /\ ~ProjectIsDir) =>
        /\ pc \in {"call", "for_entry", "raised"}
        /\ pc # "raised" => ENABLED Next
        /\ pc = "raised" => exc.kind = "EmptyProjectError"
        /\ entry = <<>>
        /\ patch_list = <<>>
        /\ labels = <<>>
        /\ origin = <<>>
        /\ warned = <<>>
        /\ result = <<>>

C2_Witness ==
    /\ IsListPatches
    /\ ~ProjectIsDir
    /\ pc = "raised"
    /\ exc.kind = "EmptyProjectError"

(***************************************************************************)
(* C3  The two lists are parallel: at every point between loop iterations  *)
(* they have the same length, labels[i] is the label-column value of the   *)
(* table row whose x and y are in patch_list[i]; and for a project with a  *)
(* single valid slide both returned lengths are the number of rows of its  *)
(* table at the queried level.                                             *)
(***************************************************************************)
C3_ParallelLists ==
    IsListPatches =>
        /\ Len(patch_list) = Len(labels)
        /\ Len(patch_list) = Len(origin)
        /\ \A i \in DOMAIN origin :
              LET row == RowAt(origin[i].name, origin[i].index) IN
              /\ patch_list[i].x = row.x
              /\ patch_list[i].y = row.y
              /\ labels[i] = row[args.label]
        /\ (pc = "returned" /\ Len(SlideEntries) = 1 /\ ~Fails(SlideEntries[1])) =>
              /\ result[1].patch_list = patch_list
              /\ result[1].labels = labels
              /\ Len(result[1].patch_list) = Cardinality(MatchingIndexes(SlideEntries[1]))
              /\ Len(result[1].labels) = Cardinality(MatchingIndexes(SlideEntries[1]))

\* a single valid slide with two rows at the queried level and one at another
C3_Witness ==
    /\ IsListPatches
    /\ pc = "returned"
    /\ Len(SlideEntries) = 1
    /\ ~Fails(SlideEntries[1])
    /\ Len(TableOf(SlideEntries[1]).rows) = 3
    /\ Len(result[1].labels) = 2
    /\ result[1].labels[1] # result[1].labels[2]

IsWalker == args.op = "get_patch_folders_in_project"
Excluded(n, exclude) == \E k \in DOMAIN exclude : IsSubstring(exclude[k], n)
TimesYielded(n) ==
    Cardinality({i \in DOMAIN yielded : yielded[i] = <<n, FolderOf(n)>>})


(***************************************************************************)
(* C4  Exclusion by name substring.  Iterating the walker on its own: each *)
(* value yielded is (name, project_folder/name) for a listed name that is  *)
(* a subdirectory and holds no exclude term, and once the walker is        *)
(* exhausted every listed name has been yielded once if it is one, and not *)
(* at all if it is a file or holds any one exclude term.  In list_patches  *)
(* (default exclude) a listed name holding "annotation" is never the       *)
(* current entry, and never the source of a descriptor or a warning.       *)
(***************************************************************************)
C4_ExcludeBySubstring ==
    /\ (IsWalker /\ ProjectIsDir) =>
          LET listing == fs.dirs[ProjectFolder] IN
          /\ pc # "raised"
          /\ \A i \in DOMAIN yielded :
                \E k \in DOMAIN listing :
                    /\ yielded[i] = <<listing[k], FolderOf(listing[k])>>
                    /\ FolderOf(listing[k]) \in DOMAIN fs.dirs
                    /\ ~Excluded(listing[k], args.exclude)
          /\ pc = "exhausted" =>
                \A k \in DOMAIN listing :
                    TimesYielded(listing[k]) =
                        IF /\ FolderOf(listing[k]) \in DOMAIN fs.dirs
                           /\ ~Excluded(listing[k], args.exclude)
                        THEN 1 ELSE 0
    /\ (IsListPatches /\ ProjectIsDir) =>
          \A k \in DOMAIN fs.dirs[ProjectFolder] :
              LET n == fs.dirs[ProjectFolder][k] IN
              IsSubstring(Annotation, n) =>
                  /\ entry # <<>> => entry[1] # n
                  /\ \A i \in DOMAIN origin : origin[i].name # n
                  /\ \A i \in DOMAIN warned_entry : warned_entry[i] # n
                  /\ \A i \in DOMAIN patch_list : patch_list[i].slide # SlideFileOf(n)

\* two exclude terms: one listed folder holds only the second and is left
\* out, the other holds neither and is yielded
C4_Witness ==
    /\ IsWalker
    /\ pc = "exhausted"
    /\ Len(args.exclude) = 2
    /\ Len(fs.dirs[ProjectFolder]) = 2
    /\ \A k \in 1..2 : FolderOf(fs.dirs[ProjectFolder][k]) \in DOMAIN fs.dirs
    /\ ~IsSubstring(args.exclude[1], fs.dirs[ProjectFolder][1])
    /\ IsSubstring(args.exclude[2], fs.dirs[ProjectFolder][1])
    /\ Len(yielded) = 1
    /\ yielded[1][1] = fs.dirs[ProjectFolder][2]

IsExtract == args.op = "handle_labeled_patches"
AtLevel(row) == row.level = args.level
RowsAtLevel == SelectSeq(fs.csv[args.patch_file].rows, AtLevel)
IsPrefix(s, t) == Len(s) <= Len(t) /\ \A i \in DOMAIN s : s[i] = t[i]


(***************************************************************************)
(* C5  Level filter.  Iterating handle_labeled_patches on a table that has *)
(* the label column: what has been yielded is always a prefix of, and at   *)
(* exhaustion equal to, the (x, y, label) of the rows whose level is the   *)
(* queried level, each once, in table row order.                           *)
(***************************************************************************)
C5_LevelFilter ==
    (IsExtract /\ args.column \in fs.csv[args.patch_file].columns) =>
        LET expected == [i \in DOMAIN RowsAtLevel |->
                            <<RowsAtLevel[i].x, RowsAtLevel[i].y,
                              RowsAtLevel[i][args.column]>>]
        IN  /\ pc \in {"call", "exhausted"}
            /\ pc = "call" => ENABLED Next
            /\ IsPrefix(yielded, expected)
            /\ pc = "exhausted" => yielded = expected

\* a row of another level stands before a row that is yielded
C5_Witness ==
    /\ IsExtract
    /\ pc = "exhausted"
    /\ Len(fs.csv[args.patch_file].rows) = 2
    /\ fs.csv[args.patch_file].rows[1].level # args.level
    /\ Len(yielded) = 1

IsGetSlideFile == args.op = "get_slide_file"
IsSlideFileFor(e, slide_name) ==
    /\ Len(e) >= Len(MrxsExt)
    /\ SubSeq(e, Len(e) - Len(MrxsExt) + 1, Len(e)) = MrxsExt
    /\ e[1] # "."
    /\ SubSeq(e, 1, Len(e) - Len(MrxsExt)) = slide_name


(***************************************************************************)
(* C6  Slide file matching.  get_slide_file returns slide_folder/e only    *)
(* for a listed e that ends with ".mrxs", does not start with "." and is   *)
(* slide_name followed by the extension; it raises SlideNotFoundError      *)
(* exactly when the folder is not a directory or no listed name is such.   *)
(***************************************************************************)
C6_SlideFileMatch ==
    (IsGetSlideFile /\ pc # "call") =>
        LET found == IF SlidesIsDir
                     THEN {e \in Range(fs.dirs[SlideFolder]) :
                              IsSlideFileFor(e, args.slide_name)}
                     ELSE {}
        IN  /\ pc \in {"returned", "raised"}
            /\ pc = "raised" <=> found = {}
            /\ pc = "raised" => exc.kind = "SlideNotFoundError"
            /\ pc = "returned" =>
                  \E e \in found : result = <<SlideFolder \o <<e>>>>

\* the file is found after a name that only starts like it
C6_Witness ==
    /\ IsGetSlideFile
    /\ pc = "returned"
    /\ Len(fs.dirs[SlideFolder]) = 2
    /\ fs.dirs[SlideFolder][1] = Mrxs(sA \o <<".", "b">>)
    /\ args.slide_name = sA
    /\ result = <<SlideFolder \o <<Mrxs(sA)>>>>

(***************************************************************************)
(* The warning each failing entry is due, by the first step that fails.    *)
(***************************************************************************)
ExpectedWarning(n) ==
    IF ~SlidesIsDir
    THEN [site |-> "no_slide_folder", mentions |-> [slide_folder |-> SlideFolder]]
    ELSE IF ~SlideFileThere(n)
    THEN [site |-> "no_slide_file",
          mentions |-> [slide_name |-> n, slide_folder |-> SlideFolder]]
    ELSE IF ~TableThere(n)
    THEN [site |-> "no_patches", mentions |-> [patch_folder |-> FolderOf(n)]]
    ELSE [site |-> "no_column",
          mentions |-> [column |-> args.label, patch_file |-> CsvOf(n)]]

WarningsFor(n) == {i \in DOMAIN warned_entry : warned_entry[i] = n}

\* the message names the slide: its patch folder, a file in it, or its name
NamesSlide(w, n) ==
    \/ w.site \in {"no_patches", "no_patch_folder"}
          /\ w.mentions.patch_folder = FolderOf(n)
    \/ w.site = "no_column" /\ w.mentions.patch_file = CsvOf(n)
    \/ w.site = "no_slide_file" /\ w.mentions.slide_name = n

(***************************************************************************)
(* C7  As claimed: for every slide entry whose patch folder has no table   *)
(* file, list_patches returns without its rows and with exactly one        *)
(* warning naming that slide's folder, also when its slide file is         *)
(* missing.  The code does not do this.                                    *)
(***************************************************************************)
C7_OneWarningNamingFolder ==
    (IsListPatches /\ pc = "returned") =>
        \A k \in DOMAIN SlideEntries :
            LET n == SlideEntries[k] IN
            ~TableThere(n) =>
                /\ \A i \in DOMAIN origin : origin[i].name # n
                /\ Cardinality({i \in DOMAIN warned : NamesSlide(warned[i], n)}) = 1

(***************************************************************************)
(* C7 amended  For every slide entry whose patch folder has no table file, *)
(* list_patches does not raise, returns without its rows and warns exactly *)
(* once for it: with the PatchesNotFoundError message naming its patch     *)
(* folder when its slide file was found, otherwise with the                *)
(* SlideNotFoundError message of the slide file lookup, which names the    *)
(* slide name and the slide folder, or the slide folder alone when that is *)
(* not a directory.                                                        *)
(***************************************************************************)
C7_OneWarningByFirstFailure ==
    (IsListPatches /\ ProjectIsDir) =>
        /\ pc # "raised"
        /\ pc = "returned" =>
              \A k \in DOMAIN SlideEntries :
                  LET n == SlideEntries[k] IN
                  ~TableThere(n) =>
                      /\ \A i \in DOMAIN origin : origin[i].name # n
                      /\ Cardinality(WarningsFor(n)) = 1
                      /\ \A i \in WarningsFor(n) :
                            IF SlideFileThere(n)
                            THEN warned[i] =
                                   [site |-> "no_patches",
                                    mentions |-> [patch_folder |-> FolderOf(n)]]
                            ELSE IF SlidesIsDir
                            THEN warned[i] =
                                   [site |-> "no_slide_file",
                                    mentions |-> [slide_name |-> n,
                                                  slide_folder |-> SlideFolder]]
                            ELSE warned[i] =
                                   [site |-> "no_slide_folder",
                                    mentions |-> [slide_folder |-> SlideFolder]]

\* one entry without table whose slide file is there, one whose is not
C7_Witness ==
    /\ IsListPatches
    /\ pc = "returned"
    /\ Len(SlideEntries) = 2
    /\ \A k \in 1..2 : ~TableThere(SlideEntries[k])
    /\ SlideFileThere(SlideEntries[1])
    /\ ~SlideFileThere(SlideEntries[2])
    /\ Len(warned) = 2

(***************************************************************************)
(* C8  A missing label column is an error.  Iterating                      *)
(* handle_labeled_patches: when the column is not a column of the table it *)
(* raises UnknownColumnError on the first next(), nothing yielded, also    *)
(* when no row is at the queried level; when the column is there it never  *)
(* raises, and with no row at the level it ends having yielded nothing.    *)
(* In list_patches an entry whose slide file and table are there but whose *)
(* table lacks the column gets no descriptor and exactly one warning, the  *)
(* UnknownColumnError message, while every entry that does not fail has    *)
(* its rows at the level in the result.                                    *)
(***************************************************************************)
C8_MissingColumnIsError ==
    /\ IsExtract =>
          LET table == fs.csv[args.patch_file] IN
          IF args.column \notin table.columns
          THEN /\ pc \in {"call", "raised"}
               /\ yielded = <<>>
               /\ pc = "call" => ~gen_started /\ ENABLED Next
               /\ pc = "raised" =>
                     /\ exc.kind = "UnknownColumnError"
                     /\ exc.mentions = [column |-> args.column,
                                        patch_file |-> args.patch_file]
          ELSE /\ pc \in {"call", "exhausted"}
               /\ pc = "call" => ENABLED Next
               /\ (pc = "exhausted" /\ RowsAtLevel = <<>>) => yielded = <<>>
    /\ (IsListPatches /\ pc = "returned") =>
          \A k \in DOMAIN SlideEntries :
              LET n == SlideEntries[k] IN
              IF ~Fails(n)
              THEN MatchingIndexes(n) =
                      {origin[i].index : i \in {j \in DOMAIN origin : origin[j].name = n}}
              ELSE (SlideFileThere(n) /\ TableThere(n)) =>
                      /\ \A i \in DOMAIN origin : origin[i].name # n
                      /\ Cardinality(WarningsFor(n)) = 1
                      /\ \A i \in WarningsFor(n) :
                            warned[i] =
                               [site |-> "no_column",
                                mentions |-> [column |-> args.label,
                                              patch_file |-> CsvOf(n)]]

\* the first entry's table lacks the column and has no row at the level,
\* the second entry's rows are returned
C8_Witness ==
    /\ IsListPatches
    /\ pc = "returned"
    /\ Len(SlideEntries) = 2
    /\ SlideFileThere(SlideEntries[1])
    /\ TableThere(SlideEntries[1])
    /\ ~ColumnThere(SlideEntries[1])
    /\ MatchingIndexes(SlideEntries[1]) = {}
    /\ ~Fails(SlideEntries[2])
    /\ Len(result[1].patch_list) >= 1
    /\ Len(warned) = 1

ExpectedRows(n) == IF Fails(n) THEN <<>> ELSE SelectSeq(TableOf(n).rows, AtLevel)
ExpectedDescriptors(n) ==
    [i \in DOMAIN ExpectedRows(n) |->
        [slide |-> SlideFileOf(n), x |-> ExpectedRows(n)[i].x,
         y |-> ExpectedRows(n)[i].y, level |-> args.level,
         dimensions |-> args.dim]]
ExpectedLabels(n) ==
    [i \in DOMAIN ExpectedRows(n) |-> ExpectedRows(n)[i][args.label]]

RECURSIVE ExpectedPatchList(_)
ExpectedPatchList(k) ==
    IF k = 0 THEN <<>>
    ELSE ExpectedPatchList(k - 1) \o ExpectedDescriptors(SlideEntries[k])

RECURSIVE ExpectedLabelList(_)
ExpectedLabelList(k) ==
    IF k = 0 THEN <<>>
    ELSE ExpectedLabelList(k - 1) \o ExpectedLabels(SlideEntries[k])


(***************************************************************************)
(* C9  Output order and content: what list_patches has appended is always  *)
(* a prefix of, and what it returns is, the concatenation over the slide   *)
(* entries in listing order of each non-failing entry's rows at the        *)
(* queried level in row order, each as a descriptor with that entry's own  *)
(* slide file path, the row's x and y, the queried level and the caller's  *)
(* dimensions; the labels likewise.                                        *)
(***************************************************************************)
C9_OrderAndContent ==
    (IsListPatches /\ ProjectIsDir) =>
        LET expected_patches == ExpectedPatchList(Len(SlideEntries))
            expected_labels == ExpectedLabelList(Len(SlideEntries))
        IN  /\ IsPrefix(patch_list, expected_patches)
            /\ IsPrefix(labels, expected_labels)
            /\ pc = "returned" =>
                  /\ result[1].patch_list = expected_patches
                  /\ result[1].labels = expected_labels

\* two slides contribute two rows each, around a row of another level
C9_Witness ==
    /\ IsListPatches
    /\ pc = "returned"
    /\ Len(result[1].patch_list) = 4
    /\ result[1].patch_list[1].slide = result[1].patch_list[2].slide
    /\ result[1].patch_list[2].slide # result[1].patch_list[3].slide
    /\ result[1].patch_list[1].x # result[1].patch_list[2].x
    /\ args.dim = <<64, 32>>

(***************************************************************************)
(* C10  Step order.  The slide file is resolved before the table is        *)
(* located and the table located before it is read; each warning is the    *)
(* one of the first failing step of its entry, and at return the entries   *)
(* warned about are exactly the failing ones, once each in walk order, so  *)
(* an entry passing the three steps has none.  When slide_folder is not a  *)
(* directory and project_folder is, list_patches does not raise, never     *)
(* locates or reads a table, and returns two empty lists with one          *)
(* SlideNotFoundError warning per slide entry.                             *)
(***************************************************************************)
C10_StepOrder ==
    (IsListPatches /\ ProjectIsDir) =>
        /\ Len(warned) = Len(warned_entry)
        /\ \A i \in DOMAIN warned : warned[i] = ExpectedWarning(warned_entry[i])
        /\ pc = "returned" => warned_entry = SelectSeq(SlideEntries, Fails)
        /\ pc = "get_csv" => slide_path = SlideFileOf(entry[1])
        /\ pc = "for_row" =>
              /\ slide_path = SlideFileOf(entry[1])
              /\ patch_file = CsvOf(entry[1])
        /\ (pc = "except" /\ exc.site \in {"no_slide_folder", "no_slide_file"}) =>
              patch_file # CsvOf(entry[1])
        /\ ~SlidesIsDir =>
              /\ pc \notin {"get_csv", "for_row", "raised"}
              /\ patch_file = <<>>
              /\ ~gen_started
              /\ pc = "returned" =>
                    /\ result = <<[patch_list |-> <<>>, labels |-> <<>>]>>
                    /\ Len(warned) = Len(SlideEntries)
                    /\ \A i \in DOMAIN warned : warned[i].site = "no_slide_folder"

\* no slide folder, two slide entries with tables: two warnings, nothing read
C10_Witness ==
    /\ IsListPatches
    /\ ProjectIsDir
    /\ ~SlidesIsDir
    /\ pc = "returned"
    /\ Len(SlideEntries) = 2
    /\ \A k \in 1..2 : TableThere(SlideEntries[k])
    /\ Len(warned) = 2

====
